---- MODULE Spec2Model ----
(***************************************************************************)
(* EBS dashboard generator (dashboardcreation_EBS.py and its twin          *)
(* dashboardwithoutanimation.py): one run of main() as a state machine.    *)
(* Text is a sequence of one-character strings, so that str.strip(),       *)
(* str.startswith() and str.lower() are computed and not assumed.  A dict  *)
(* is a function whose DOMAIN is the set of keys present.                  *)
(***************************************************************************)
EXTENDS Integers, Sequences, FiniteSets, TLC

VARIABLES
    pc,              \* position of the run inside main() and its callees
    regions,         \* get_user_inputs: list returned by get_aws_regions
    entered,         \* raw lines the operator typed at the prompt loop in progress
    selected_region, \* get_user_inputs: selected_region
    instance_id,     \* get_user_inputs: instance_id
    dashboard_name,  \* get_user_inputs: dashboard_name
    self_region,     \* EBSDashboardGenerator.region (set by __init__)
    cw_region,       \* cloudwatch_client.meta.region_name (client built by __init__)
    variant,         \* the script that runs: "EBS" or "plain"
    response,        \* get_volume_info: response['Volumes'] of the list call
    idx,             \* index of the running for-loop over volumes
    detail,          \* get_volume_details: response['Volumes'] of the last detail call
    volumes,         \* get_volume_info / create_dashboard: volumes
    drive_names,     \* get_drive_names: drive_names
    prompted,        \* volume ids for which the drive-label prompt was shown
    widgets,         \* create_dashboard: widgets
    store,           \* CloudWatch: dashboard name -> stored document
    calls,           \* remote calls issued so far, in order
    out,             \* notices printed so far, in order
    interrupted      \* a KeyboardInterrupt was delivered to the run

vars == <<pc, regions, entered, selected_region, instance_id, dashboard_name,
          self_region, cw_region, variant, response, idx, detail, volumes, drive_names, prompted,
          widgets, store, calls, out, interrupted>>

\* ---------------------------------------------------------------- bounds
MaxVols == 2
MaxAttempts == 2

\* ------------------------------------------------------------ Python text
\* Python's None; no text of the model is this sequence.
None == <<"None">>

Whitespace == {" "}

RECURSIVE lstrip(_)
lstrip(s) ==
    IF s # <<>> /\ Head(s) \in Whitespace THEN lstrip(Tail(s)) ELSE s

RECURSIVE rstrip(_)
rstrip(s) ==
    IF s # <<>> /\ s[Len(s)] \in Whitespace
    THEN rstrip(SubSeq(s, 1, Len(s) - 1))
    ELSE s

\* str.strip() with no argument
strip(s) == rstrip(lstrip(s))

\* str.startswith(p)
startswith(s, p) ==
    Len(s) >= Len(p) /\ SubSeq(s, 1, Len(p)) = p

\* str.lower() on the letters the confirmation prompt can receive
lower(s) ==
    [i \in 1..Len(s) |-> IF s[i] = "Y" THEN "y" ELSE IF s[i] = "N" THEN "n" ELSE s[i]]

\* Python truthiness of an Optional[str] / list: None and the empty value are falsy
Truthy(x) == x # None /\ x # <<>>

\* dict.get(k, default)
Get(d, k, default) == IF k \in DOMAIN d THEN d[k] ELSE default

Digits == <<"0", "1", "2", "3", "4", "5", "6", "7", "8", "9">>

DigitValue(c) == (CHOOSE i \in 1..10 : Digits[i] = c) - 1

IsDigit(c) == \E i \in 1..10 : Digits[i] = c

\* int(text): the text is stripped; anything but decimal digits raises ValueError
IsInt(s) ==
    /\ strip(s) # <<>>
    /\ \A i \in 1..Len(strip(s)) : IsDigit(strip(s)[i])

RECURSIVE IntOfDigits(_)
IntOfDigits(s) ==
    IF s = <<>> THEN 0
    ELSE 10 * IntOfDigits(SubSeq(s, 1, Len(s) - 1)) + DigitValue(s[Len(s)])

int(s) == IntOfDigits(strip(s))

\* ------------------------------------------------ what the environment offers
\* describe_regions: the provider's list when the call succeeds
ProviderRegions == << <<"ap-south-1">>, <<"us-east-1">> >>

\* lines typed at "Select region number:"
RegionInputs == { <<"x">>, <<>>, <<"0">>, <<" ", "1">>, <<"6">> }

\* lines typed at "Enter EC2 instance ID"
InstanceInputs ==
    { <<>>, <<"b", "a", "d", "-", "i", "d">>, <<"i", "-">>, <<"i", "-", " ">>,
      <<"i", "-", "0">>, <<" ", "i", "-", "0">> }

\* lines typed at "Enter dashboard name:"
NameInputs == { <<>>, <<" ">>, <<" ", "d">> }

\* lines typed at "Proceed with these settings? (y/n):"
ConfirmInputs == { <<"y">>, <<" ", "Y", " ">>, <<"n">>, <<>>, <<"y", "e", "s">> }

\* lines typed at "Enter drive name for this volume"
LabelInputs == { <<>>, <<" ">>, <<" ", "A", " ">> }

\* exceptions a boto3 call raises when the remote call fails
RemoteErrors == { "ClientError", "BotoCoreError" }

VolumeId(k) == <<"vol-", k>>

\* one entry of response['Volumes'] of the list call
ListedVolume(k) ==
    [VolumeId |-> VolumeId(k),
     Attachments |-> << [Device |-> <<"/dev/sd", k>>] >>,
     Size |-> 100 * k]

\* lists of distinct attached volumes, ascending or descending by id (the
\* provider promises no order)
ListResponses ==
    { s \in UNION { [1..n -> 1..MaxVols] : n \in 0..MaxVols } :
        \/ \A i, j \in DOMAIN s : i < j => s[i] < s[j]
        \/ \A i, j \in DOMAIN s : i < j => s[i] > s[j] }

TagLists ==
    { << [Key |-> "Name", Value |-> <<>>] >>,
      << [Key |-> "Env", Value |-> <<"x">>], [Key |-> "Name", Value |-> <<" ", "D">>] >> }

\* a volume as the detail call describes it: of Iops, Throughput and Tags only
\* the keys in `keys` are present
DescribedVolume(vid, keys, tags) ==
    LET full == [VolumeId |-> vid, Iops |-> 100, Throughput |-> 250, Tags |-> tags]
    IN  [k \in {"VolumeId"} \cup keys |-> full[k]]

\* response['Volumes'] of describe_volumes(VolumeIds=[vid])
DetailResponses(vid) ==
    { <<>> } \cup
    { << DescribedVolume(vid, keys, tags) >> :
        keys \in SUBSET {"Iops", "Throughput", "Tags"}, tags \in TagLists }

DashboardNames == { strip(n) : n \in NameInputs } \ { <<>> }

\* ------------------------------------------------------------ pure functions
DefaultIops == 3000
DefaultThroughput == 125
BytesPerMB == 1024 * 1024

\* next((tag['Value'] for tag in tags if tag['Key'] == 'Name'), None)
RECURSIVE name_tag_of(_)
name_tag_of(tags) ==
    IF tags = <<>> THEN None
    ELSE IF Head(tags).Key = "Name" THEN Head(tags).Value
    ELSE name_tag_of(Tail(tags))

\* the throughput fallback taken from the IOPS default
volume_details_mixed(resp) ==
    IF resp # <<>>
    THEN LET volume == resp[1] IN
         [name_tag |-> name_tag_of(Get(volume, "Tags", <<>>)),
          iops |-> Get(volume, "Iops", DefaultIops),
          throughput |-> Get(volume, "Throughput", DefaultIops)]
    ELSE [name_tag |-> None, iops |-> DefaultIops, throughput |-> DefaultThroughput]

\* get_volume_details, applied to response['Volumes'] of the detail call
volume_details(resp) ==
    IF resp # <<>>
    THEN LET volume == resp[1] IN
         [name_tag |-> name_tag_of(Get(volume, "Tags", <<>>)),
          iops |-> Get(volume, "Iops", DefaultIops),
          throughput |-> Get(volume, "Throughput", DefaultThroughput)]
    ELSE [name_tag |-> None, iops |-> DefaultIops, throughput |-> DefaultThroughput]

\* the dict get_volume_info appends for one listed volume
volume_entry(listed, details) ==
    [VolumeId |-> listed.VolumeId,
     DeviceName |-> listed.Attachments[1].Device,
     Size |-> listed.Size,
     NameTag |-> details.name_tag,
     Iops |-> details.iops,
     Throughput |-> details.throughput]

hidden_metric(id, region) == [id |-> id, visible |-> FALSE, region |-> region]

generate_iops_widget(volume_id, drive_name, region, iops) ==
    [metrics |->
        << << [expression |-> "(m1+m2)/(60-m3)", label |-> "Expression1",
               id |-> "e1", region |-> region] >>,
           << "AWS/EBS", "VolumeReadOps", "VolumeId", volume_id, hidden_metric("m1", region) >>,
           << ".", "VolumeWriteOps", ".", ".", hidden_metric("m2", region) >>,
           << ".", "VolumeIdleTime", ".", ".", hidden_metric("m3", region) >> >>,
     view |-> "timeSeries",
     stacked |-> FALSE,
     region |-> region,
     stat |-> "Sum",
     period |-> 60,
     title |-> <<"IOPS - ", volume_id, "_">> \o drive_name,
     annotations |-> [horizontal |-> << [value |-> iops, fill |-> "below"] >>]]

\* megabytes taken as 10^6 bytes
throughput_bytes_decimal(throughput) == throughput * 1000 * 1000

throughput_bytes(throughput) == throughput * BytesPerMB

generate_throughput_widget(volume_id, drive_name, region, throughput) ==
    [sparkline |-> TRUE,
     metrics |->
        << << [expression |-> "(m1+m2)/(60-m3)", label |-> "Expression1",
               id |-> "e1", period |-> 60, stat |-> "Sum", region |-> region] >>,
           << "AWS/EBS", "VolumeReadBytes", "VolumeId", volume_id, hidden_metric("m1", region) >>,
           << ".", "VolumeWriteBytes", ".", ".", hidden_metric("m2", region) >>,
           << ".", "VolumeIdleTime", ".", ".", hidden_metric("m3", region) >> >>,
     view |-> "timeSeries",
     stacked |-> FALSE,
     region |-> region,
     stat |-> "Sum",
     period |-> 60,
     yAxis |-> [left |-> [min |-> 0]],
     liveData |-> FALSE,
     singleValueFullPrecision |-> FALSE,
     setPeriodToTimeRange |-> TRUE,
     title |-> <<"Throughput - ", volume_id, "_">> \o drive_name,
     annotations |->
        [horizontal |-> << [value |-> throughput_bytes(throughput), fill |-> "below"] >>]]

metric_widget(properties) ==
    [type |-> "metric", width |-> 12, height |-> 6, properties |-> properties]

\* the pair widgets.extend([...]) adds for one volume
volume_widgets(volume, names, region) ==
    << metric_widget(generate_iops_widget(
           volume.VolumeId, names[volume.VolumeId], region, volume.Iops)),
       metric_widget(generate_throughput_widget(
           volume.VolumeId, names[volume.VolumeId], region, volume.Throughput)) >>

\* widgets inserted at the front instead of appended
RECURSIVE build_widgets_front(_, _, _)
build_widgets_front(vols, names, region) ==
    IF vols = <<>> THEN <<>>
    ELSE build_widgets_front(Tail(vols), names, region)
         \o volume_widgets(Head(vols), names, region)

\* the for-loop of create_dashboard over volumes
RECURSIVE build_widgets(_, _, _)
build_widgets(vols, names, region) ==
    IF vols = <<>> THEN <<>>
    ELSE volume_widgets(Head(vols), names, region)
         \o build_widgets(Tail(vols), names, region)

\* the new widgets appended to the dashboard already stored under the name
dashboard_body_merged(ws) ==
    [widgets |->
        (IF dashboard_name \in DOMAIN store
         THEN store[dashboard_name].json.widgets ELSE <<>>) \o ws]

dashboard_body(ws) == [widgets |-> ws]

\* DashboardBody=json.dumps(dashboard_body): the encoding is one-to-one, the
\* document is kept as the structure it encodes
json_dumps(body) == [json |-> body]

\* CloudWatch PutDashboard: create the named dashboard or replace it
put_dashboard(st, name, body) ==
    [n \in DOMAIN st \cup {name} |-> IF n = name THEN body ELSE st[n]]

\* ------------------------------------------------------------- exceptions
\* get_aws_regions: the list returned when describe_regions fails
FallbackRegions ==
    << <<"us-east-1">>, <<"us-east-2">>, <<"us-west-1">>, <<"us-west-2">>, <<"eu-west-1">> >>

\* a catch-all that also takes BaseException, as a bare except does
IsInstance_bare(exc, cls) ==
    \/ cls = exc
    \/ cls = "Exception"

\* isinstance(exc, cls): ClientError, BotoCoreError and ValueError derive from
\* Exception; KeyboardInterrupt derives from BaseException only
IsInstance(exc, cls) ==
    \/ cls = exc
    \/ cls = "Exception" /\ exc # "KeyboardInterrupt"

\* the except clauses, each with the class it names
HandlerClass(h) ==
    CASE h = "get_aws_regions.except" -> "Exception"
      [] h = "get_user_inputs.except" -> "ValueError"
      [] h = "get_volume_info.except" -> "Exception"
      [] h = "create_dashboard.except_client" -> "ClientError"
      [] h = "create_dashboard.except" -> "Exception"
      [] h = "main.except_interrupt" -> "KeyboardInterrupt"
      [] h = "main.except" -> "Exception"

InMain == << "main.except_interrupt", "main.except" >>

InCreateDashboard ==
    << "create_dashboard.except_client", "create_dashboard.except" >> \o InMain

\* the except clauses around position p, innermost first
TryStack(p) ==
    CASE p = "get_aws_regions" -> << "get_aws_regions.except" >> \o InMain
      [] p = "region_prompt" -> << "get_user_inputs.except" >> \o InMain
      [] p \in {"instance_prompt", "name_prompt", "confirm_prompt", "init_clients"} -> InMain
      [] p \in {"list_volumes", "detail"} -> << "get_volume_info.except" >> \o InCreateDashboard
      [] p \in {"check_volumes", "drive_names", "build_widgets", "put_dashboard",
                "published"} -> InCreateDashboard
      [] OTHER -> << >>

RECURSIVE FirstCatching(_, _)
FirstCatching(stack, exc) ==
    IF stack = <<>> THEN "uncaught"
    ELSE IF IsInstance(exc, HandlerClass(Head(stack))) THEN Head(stack)
    ELSE FirstCatching(Tail(stack), exc)

\* the except clause that receives exc raised at position p
Catcher(p, exc) == FirstCatching(TryStack(p), exc)

\* the frames of create_dashboard and its callees are left: their locals are gone
LocalsDropped ==
    /\ response' = <<>>
    /\ idx' = 0
    /\ detail' = None
    /\ volumes' = <<>>
    /\ drive_names' = <<>>
    /\ widgets' = <<>>

\* a handler that hands back what was read before the failure
failed_result_partial(vols) == vols

\* get_volume_info's except clause: return []
failed_result(vols) == <<>>

\* exc is raised at the current position: control moves to the except clause
\* that catches it.  Sets pc, out, regions and the locals of create_dashboard.
Raise(exc) ==
    LET h == Catcher(pc, exc) IN
    CASE h = "get_aws_regions.except" ->
            /\ regions' = FallbackRegions
            /\ out' = Append(out, "regions_error")
            /\ pc' = "region_prompt"
            /\ UNCHANGED <<response, idx, detail, volumes, drive_names, widgets>>
      [] h = "get_user_inputs.except" ->
            /\ pc' = "region_prompt"
            /\ UNCHANGED <<regions, out, response, idx, detail, volumes, drive_names, widgets>>
      [] h = "get_volume_info.except" ->
            /\ out' = Append(out, "volume_info_error")
            /\ volumes' = failed_result(volumes)
            /\ response' = <<>>
            /\ idx' = 0
            /\ detail' = None
            /\ pc' = "check_volumes"
            /\ UNCHANGED <<regions, drive_names, widgets>>
      [] h = "create_dashboard.except_client" ->
            /\ out' = Append(out, "aws_api_error")
            /\ pc' = "done"
            /\ LocalsDropped
            /\ UNCHANGED regions
      [] h = "create_dashboard.except" ->
            /\ out' = Append(out, "error")
            /\ pc' = "done"
            /\ LocalsDropped
            /\ UNCHANGED regions
      [] h = "main.except_interrupt" ->
            /\ out' = Append(out, "cancelled")
            /\ pc' = "done"
            /\ LocalsDropped
            /\ regions' = <<>>
      [] h = "main.except" ->
            /\ out' = Append(out, "error")
            /\ pc' = "done"
            /\ LocalsDropped
            /\ regions' = <<>>
      [] OTHER ->
            /\ pc' = "crashed"
            /\ LocalsDropped
            /\ regions' = <<>>
            /\ UNCHANGED out

\* ------------------------------------------------------------ initial state
\* the document an earlier run of the tool stored for an instance whose only
\* volume, vol-1, carried the tag " D" and reported no Iops or Throughput
EarlierWidgets ==
    build_widgets(
        << volume_entry(ListedVolume(1),
                        [name_tag |-> <<" ", "D">>, iops |-> DefaultIops,
                         throughput |-> DefaultThroughput]) >>,
        (VolumeId(1) :> <<" ", "D">>),
        <<"us-east-1">>)

\* the provider's dashboards when the run starts: none, or the ones earlier runs
\* left, under a name this run may choose and under another name
InitialStores ==
    { << >>,
      [n \in DashboardNames \cup { <<"o">> } |->
          json_dumps([widgets |-> EarlierWidgets])] }

\* no prompt loop has been answered since the last step that was not a prompt
NoInput == [prompt |-> <<"none", <<>> >>, lines |-> <<>>]

\* the lines typed so far at prompt p
Typed(p) == IF entered.prompt = p THEN entered.lines ELSE <<>>

Line(p, raw) == [prompt |-> p, lines |-> Append(Typed(p), raw)]

\* a remote call: whether it returned, and how many items it returned
Call(op, arg, ok, n) == [op |-> op, arg |-> arg, ok |-> ok, n |-> n]

\* everything but the script that runs
InitRun ==
    /\ pc = "get_aws_regions"
    /\ regions = <<>>
    /\ entered = NoInput
    /\ selected_region = None
    /\ instance_id = None
    /\ dashboard_name = None
    /\ self_region = None
    /\ cw_region = None
    /\ response = <<>>
    /\ idx = 0
    /\ detail = None
    /\ volumes = <<>>
    /\ drive_names = <<>>
    /\ prompted = {}
    /\ widgets = <<>>
    /\ store \in InitialStores
    /\ calls = <<>>
    /\ out = <<>>
    /\ interrupted = FALSE

\* dashboardcreation_EBS.py is run
Init ==
    /\ InitRun
    /\ variant = "EBS"

\* either script is run
InitEither ==
    /\ InitRun
    /\ variant \in {"EBS", "plain"}

\* ---------------------------------------------------------- get_user_inputs
Inputs == <<selected_region, instance_id, dashboard_name, self_region, cw_region,
            variant>>
Locals == <<response, idx, detail, volumes, drive_names, widgets>>

GetAwsRegionsOk ==
    /\ pc = "get_aws_regions"
    /\ regions' = ProviderRegions
    /\ calls' = Append(calls, Call("describe_regions", <<>>, TRUE, Len(ProviderRegions)))
    /\ pc' = "region_prompt"
    /\ UNCHANGED <<entered, Inputs, Locals, prompted, store, out, interrupted>>

GetAwsRegionsFail ==
    /\ pc = "get_aws_regions"
    /\ \E e \in RemoteErrors : Raise(e)
    /\ calls' = Append(calls, Call("describe_regions", <<>>, FALSE, 0))
    /\ UNCHANGED <<entered, Inputs, prompted, store, interrupted>>

RegionPrompt == <<"region", <<>> >>

SelectRegion ==
    /\ pc = "region_prompt"
    /\ Len(Typed(RegionPrompt)) < MaxAttempts
    /\ \E raw \in RegionInputs :
        /\ entered' = Line(RegionPrompt, raw)
        /\ IF ~IsInt(raw)
           THEN /\ Raise("ValueError")
                /\ UNCHANGED selected_region
           ELSE LET region_index == int(raw) - 1 IN
                /\ IF 0 <= region_index /\ region_index < Len(regions)
                   THEN /\ selected_region' = regions[region_index + 1]
                        /\ pc' = "instance_prompt"
                   ELSE /\ pc' = "region_prompt"
                        /\ UNCHANGED selected_region
                /\ UNCHANGED <<regions, out, Locals>>
    /\ UNCHANGED <<instance_id, dashboard_name, self_region, cw_region, variant, prompted, store, calls,
                   interrupted>>

InstancePrompt == <<"instance_id", <<>> >>

\* the length test left out
ValidInstanceId_prefix(s) == startswith(s, <<"i", "-">>)

\* instance_id.startswith('i-') and len(instance_id) > 2
ValidInstanceId(s) == startswith(s, <<"i", "-">>) /\ Len(s) > 2

EnterInstanceId ==
    /\ pc = "instance_prompt"
    /\ Len(Typed(InstancePrompt)) < MaxAttempts
    /\ \E raw \in InstanceInputs :
        /\ entered' = Line(InstancePrompt, raw)
        /\ IF ValidInstanceId(strip(raw))
           THEN /\ instance_id' = strip(raw)
                /\ pc' = "name_prompt"
           ELSE /\ pc' = "instance_prompt"
                /\ UNCHANGED instance_id
    /\ UNCHANGED <<regions, selected_region, dashboard_name, self_region, cw_region, variant, Locals,
                   prompted, store, calls, out, interrupted>>

NamePrompt == <<"dashboard_name", <<>> >>

EnterDashboardName ==
    /\ pc = "name_prompt"
    /\ Len(Typed(NamePrompt)) < MaxAttempts
    /\ \E raw \in NameInputs :
        /\ entered' = Line(NamePrompt, raw)
        /\ IF strip(raw) # <<>>
           THEN /\ dashboard_name' = strip(raw)
                /\ regions' = <<>>
                /\ pc' = "confirm_prompt"
           ELSE /\ pc' = "name_prompt"
                /\ UNCHANGED <<dashboard_name, regions>>
    /\ UNCHANGED <<selected_region, instance_id, self_region, cw_region, variant, Locals,
                   prompted, store, calls, out, interrupted>>

\* --------------------------------------------------------------------- main
ConfirmPrompt == <<"confirm", <<>> >>

\* only a plain "n" cancels
proceeds_unless_n(confirm) == confirm # <<"n">>

\* if confirm != 'y': ... return
proceeds(confirm) == confirm = <<"y">>

Confirm ==
    /\ pc = "confirm_prompt"
    /\ \E raw \in ConfirmInputs :
        /\ entered' = Line(ConfirmPrompt, raw)
        /\ IF ~proceeds(lower(strip(raw)))
           THEN /\ out' = Append(out, "cancelled")
                /\ pc' = "done"
           ELSE /\ pc' = "init_clients"
                /\ UNCHANGED out
    /\ UNCHANGED <<regions, Inputs, Locals, prompted, store, calls, interrupted>>

\* EBSDashboardGenerator.__init__
\* a client built with a fixed region, as get_aws_regions builds its own
client_region_fixed(region) == <<"us-east-1">>

\* boto3.client(service, region_name=region).meta.region_name
client_region(region) == region

\* only dashboardcreation_EBS.py stores self.region
InitClients ==
    /\ pc = "init_clients"
    /\ self_region' = IF variant = "EBS" THEN selected_region ELSE None
    /\ cw_region' = client_region(selected_region)
    /\ entered' = NoInput
    /\ pc' = "list_volumes"
    /\ UNCHANGED <<regions, selected_region, instance_id, dashboard_name, variant,
                   Locals, prompted, store, calls, out, interrupted>>

\* ---------------------------------------------------------- get_volume_info
ListVolumesOk ==
    /\ pc = "list_volumes"
    /\ \E r \in ListResponses :
        /\ response' = [i \in DOMAIN r |-> ListedVolume(r[i])]
        /\ calls' = Append(calls, Call("describe_volumes", [Filters |-> instance_id],
                                       TRUE, Len(r)))
    /\ volumes' = <<>>
    /\ idx' = 1
    /\ pc' = "detail"
    /\ UNCHANGED <<regions, entered, Inputs, detail, drive_names, widgets, prompted,
                   store, out, interrupted>>

ListVolumesFail ==
    /\ pc = "list_volumes"
    /\ \E e \in RemoteErrors : Raise(e)
    /\ calls' = Append(calls, Call("describe_volumes", [Filters |-> instance_id],
                                   FALSE, 0))
    /\ UNCHANGED <<entered, Inputs, prompted, store, interrupted>>

\* the volume described once more for every volume
detail_calls_twice(volume_id, ok, n) ==
    << Call("describe_volumes", [VolumeIds |-> <<volume_id>>], ok, n),
       Call("describe_volumes", [VolumeIds |-> <<volume_id>>], ok, n) >>

\* the remote calls of get_volume_details: describe_volumes(VolumeIds=[volume_id])
detail_calls(volume_id, ok, n) ==
    << Call("describe_volumes", [VolumeIds |-> <<volume_id>>], ok, n) >>

\* one pass of the for-loop: get_volume_details, then volumes.append
DescribeVolumeOk ==
    /\ pc = "detail"
    /\ idx <= Len(response)
    /\ \E d \in DetailResponses(response[idx].VolumeId) :
        /\ detail' = d
        /\ volumes' = Append(volumes, volume_entry(response[idx], volume_details(d)))
        /\ calls' = calls \o detail_calls(response[idx].VolumeId, TRUE, Len(d))
    /\ idx' = idx + 1
    /\ UNCHANGED <<pc, regions, entered, Inputs, response, drive_names, widgets,
                   prompted, store, out, interrupted>>

DescribeVolumeFail ==
    /\ pc = "detail"
    /\ idx <= Len(response)
    /\ \E e \in RemoteErrors : Raise(e)
    /\ calls' = calls \o detail_calls(response[idx].VolumeId, FALSE, 0)
    /\ UNCHANGED <<entered, Inputs, prompted, store, interrupted>>

\* return volumes
ReturnVolumes ==
    /\ pc = "detail"
    /\ idx > Len(response)
    /\ response' = <<>>
    /\ idx' = 0
    /\ detail' = None
    /\ pc' = "check_volumes"
    /\ UNCHANGED <<regions, entered, Inputs, volumes, drive_names, widgets, prompted,
                   store, calls, out, interrupted>>

\* --------------------------------------------------------- create_dashboard
\* the emptiness test lost
NoVolumes_never(vols) == FALSE

\* if not volumes
NoVolumes(vols) == vols = <<>>

NoVolumesFound ==
    /\ pc = "check_volumes"
    /\ NoVolumes(volumes)
    /\ out' = Append(out, "no_volumes")
    /\ pc' = "done"
    /\ LocalsDropped
    /\ UNCHANGED <<regions, entered, Inputs, prompted, store, calls, interrupted>>

VolumesFound ==
    /\ pc = "check_volumes"
    /\ ~NoVolumes(volumes)
    /\ drive_names' = <<>>
    /\ idx' = 1
    /\ pc' = "drive_names"
    /\ UNCHANGED <<regions, entered, Inputs, response, detail, volumes, widgets,
                   prompted, store, calls, out, interrupted>>

\* ---------------------------------------------------------- get_drive_names
\* the tag never used
uses_tag_never(volume) == FALSE

\* any line taken as a label
accepts_label_any(drive_name) == TRUE

\* if name_tag
uses_tag(volume) == Truthy(volume.NameTag)

\* if drive_name
accepts_label(drive_name) == drive_name # <<>>

\* drive_names[volume_id] = label
Assign(names, volume_id, label) ==
    [v \in DOMAIN names \cup {volume_id} |-> IF v = volume_id THEN label ELSE names[v]]

DrivePrompt(volume_id) == <<"drive_name", volume_id>>

DriveNameFromTag ==
    /\ pc = "drive_names"
    /\ idx <= Len(volumes)
    /\ uses_tag(volumes[idx])
    /\ drive_names' = Assign(drive_names, volumes[idx].VolumeId, volumes[idx].NameTag)
    /\ idx' = idx + 1
    /\ entered' = NoInput
    /\ UNCHANGED <<pc, regions, Inputs, response, detail, volumes, widgets,
                   prompted, store, calls, out, interrupted>>

EnterDriveName ==
    /\ pc = "drive_names"
    /\ idx <= Len(volumes)
    /\ ~uses_tag(volumes[idx])
    /\ LET volume_id == volumes[idx].VolumeId IN
        /\ Len(Typed(DrivePrompt(volume_id))) < MaxAttempts
        /\ prompted' = prompted \cup {volume_id}
        /\ \E raw \in LabelInputs :
            /\ entered' = Line(DrivePrompt(volume_id), raw)
            /\ IF accepts_label(strip(raw))
               THEN /\ drive_names' = Assign(drive_names, volume_id, strip(raw))
                    /\ idx' = idx + 1
               ELSE UNCHANGED <<drive_names, idx>>
    /\ UNCHANGED <<pc, regions, Inputs, response, detail, volumes, widgets, store,
                   calls, out, interrupted>>

\* ------------------------------------------- create_dashboard, second half
\* the region handed to the widget builders: self.region in
\* dashboardcreation_EBS.py, the CloudWatch client's region in the other script
region_argument == IF variant = "EBS" THEN self_region ELSE cw_region

BuildWidgets ==
    /\ pc = "drive_names"
    /\ idx > Len(volumes)
    /\ widgets' = build_widgets(volumes, drive_names, region_argument)
    /\ idx' = 0
    /\ pc' = "put_dashboard"
    /\ entered' = NoInput
    /\ UNCHANGED <<regions, Inputs, response, detail, volumes, drive_names,
                   prompted, store, calls, out, interrupted>>

PutRequest ==
    [DashboardName |-> dashboard_name,
     DashboardBody |-> json_dumps(dashboard_body(widgets))]

PutDashboardOk ==
    /\ pc = "put_dashboard"
    /\ store' = put_dashboard(store, PutRequest.DashboardName, PutRequest.DashboardBody)
    /\ calls' = Append(calls, Call("put_dashboard", PutRequest, TRUE, 0))
    /\ pc' = "published"
    /\ UNCHANGED <<regions, entered, Inputs, Locals, prompted, out, interrupted>>

PutDashboardFail ==
    /\ pc = "put_dashboard"
    /\ \E e \in RemoteErrors : Raise(e)
    /\ calls' = Append(calls, Call("put_dashboard", PutRequest, FALSE, 0))
    /\ UNCHANGED <<entered, Inputs, prompted, store, interrupted>>

\* the success notice, and the return to main
Finish ==
    /\ pc = "published"
    /\ out' = Append(out, "success")
    /\ pc' = "done"
    /\ LocalsDropped
    /\ UNCHANGED <<regions, entered, Inputs, prompted, store, calls, interrupted>>

\* -------------------------------------------------------- the operator's ^C
KeyboardInterrupt ==
    /\ pc \notin {"done", "crashed"}
    /\ Raise("KeyboardInterrupt")
    /\ interrupted' = TRUE
    /\ entered' = NoInput
    /\ UNCHANGED <<Inputs, prompted, store, calls>>

Next ==
    \/ GetAwsRegionsOk
    \/ GetAwsRegionsFail
    \/ SelectRegion
    \/ EnterInstanceId
    \/ EnterDashboardName
    \/ Confirm
    \/ InitClients
    \/ ListVolumesOk
    \/ ListVolumesFail
    \/ DescribeVolumeOk
    \/ DescribeVolumeFail
    \/ ReturnVolumes
    \/ NoVolumesFound
    \/ VolumesFound
    \/ DriveNameFromTag
    \/ EnterDriveName
    \/ BuildWidgets
    \/ PutDashboardOk
    \/ PutDashboardFail
    \/ Finish
    \/ KeyboardInterrupt

Spec == Init /\ [][Next]_vars

SpecEither == InitEither /\ [][Next]_vars

\* ------------------------------------------------------------------ claims
IsListCall(c) == c.op = "describe_volumes" /\ "Filters" \in DOMAIN c.arg

IsDetailCall(c) == c.op = "describe_volumes" /\ "VolumeIds" \in DOMAIN c.arg

IsPutCall(c) == c.op = "put_dashboard"

NoPutCall == \A i \in DOMAIN calls : ~IsPutCall(calls[i])

\* the widget list of the document handed to put_dashboard by the last call
PublishedWidgets == calls[Len(calls)].arg.DashboardBody.json.widgets

IopsWidgetOf(volume) ==
    metric_widget(generate_iops_widget(
        volume.VolumeId, drive_names[volume.VolumeId], self_region, volume.Iops))

ThroughputWidgetOf(volume) ==
    metric_widget(generate_throughput_widget(
        volume.VolumeId, drive_names[volume.VolumeId], self_region, volume.Throughput))

\* C1: the document passed to put_dashboard for a volume list of length N holds
\* exactly 2N widgets; widget 2k is the IOPS widget and widget 2k+1 the
\* throughput widget of the k-th volume (counting from 0), in the list's order.
C1_WidgetsAlternateInOrder ==
    pc = "published" =>
        /\ IsPutCall(calls[Len(calls)])
        /\ Len(PublishedWidgets) = 2 * Len(volumes)
        /\ \A k \in 1..Len(volumes) :
            /\ PublishedWidgets[2 * k - 1] = IopsWidgetOf(volumes[k])
            /\ PublishedWidgets[2 * k] = ThroughputWidgetOf(volumes[k])

\* two volumes with different labels, limits and tags were published
C1_Witness ==
    /\ pc = "published"
    /\ Len(volumes) = 2
    /\ volumes[1].NameTag # volumes[2].NameTag
    /\ volumes[1].Iops # volumes[2].Iops
    /\ volumes[1].Throughput # volumes[2].Throughput
    /\ drive_names[volumes[1].VolumeId] # drive_names[volumes[2].VolumeId]

AnnotationValue(widget) == widget.properties.annotations.horizontal[1].value

\* C2: the annotation of a volume's throughput widget is its throughput limit
\* times 1,048,576; the annotation of its IOPS widget is its IOPS limit as is.
C2_AnnotationValues ==
    pc \in {"put_dashboard", "published"} =>
        \A k \in 1..Len(volumes) :
            /\ 2 * k <= Len(widgets)
            /\ Len(widgets[2 * k].properties.annotations.horizontal) = 1
            /\ AnnotationValue(widgets[2 * k]) = volumes[k].Throughput * 1048576
            /\ Len(widgets[2 * k - 1].properties.annotations.horizontal) = 1
            /\ AnnotationValue(widgets[2 * k - 1]) = volumes[k].Iops

\* a volume with 250 MB/s and 100 IOPS got the annotations 262144000 and 100
C2_Witness ==
    /\ pc = "published"
    /\ \E k \in 1..Len(volumes) :
        /\ volumes[k].Throughput = 250
        /\ volumes[k].Iops = 100
        /\ AnnotationValue(widgets[2 * k]) = 262144000
        /\ AnnotationValue(widgets[2 * k - 1]) = 100

\* the volumes get_drive_names has dealt with or is dealing with
SeenByDriveNames == IF pc = "drive_names" THEN 1..Len(volumes) ELSE {}

Labelled(volume) == volume.VolumeId \in DOMAIN drive_names

\* C3 as stated: a volume with a Name tag, whatever its value, is never
\* prompted for and gets the tag value as its label.
C3_AsStated ==
    \A k \in SeenByDriveNames :
        volumes[k].NameTag # None =>
            /\ volumes[k].VolumeId \notin prompted
            /\ Labelled(volumes[k]) =>
                drive_names[volumes[k].VolumeId] = volumes[k].NameTag

\* C3: a volume whose Name tag has a non-empty value is never prompted for and
\* gets the tag value verbatim as its label.
C3_NonEmptyTagUsedVerbatim ==
    \A k \in SeenByDriveNames :
        (volumes[k].NameTag # None /\ volumes[k].NameTag # <<>>) =>
            /\ volumes[k].VolumeId \notin prompted
            /\ k < idx => Labelled(volumes[k])
            /\ Labelled(volumes[k]) =>
                drive_names[volumes[k].VolumeId] = volumes[k].NameTag

\* a volume tagged " D" was labelled " D", blank included, without a prompt
C3_Witness ==
    /\ pc = "drive_names"
    /\ \E k \in 1..Len(volumes) :
        /\ k < idx
        /\ volumes[k].NameTag = <<" ", "D">>
        /\ drive_names[volumes[k].VolumeId] = <<" ", "D">>
        /\ volumes[k].VolumeId \notin prompted

\* the volume whose drive-label prompt was answered last
AtDrivePrompt(volume) == entered.prompt = DrivePrompt(volume.VolumeId)

TitlesCarry(k) ==
    /\ widgets[2 * k - 1].properties.title
         = <<"IOPS - ", volumes[k].VolumeId, "_">> \o drive_names[volumes[k].VolumeId]
    /\ widgets[2 * k].properties.title
         = <<"Throughput - ", volumes[k].VolumeId, "_">> \o drive_names[volumes[k].VolumeId]

\* C4 as stated: the label of an untagged volume is the first non-empty line
\* the operator typed at its prompt, as typed.
C4_AsStated ==
    \A k \in SeenByDriveNames :
        (AtDrivePrompt(volumes[k]) /\ Labelled(volumes[k])) =>
            \E i \in 1..Len(entered.lines) :
                /\ entered.lines[i] # <<>>
                /\ \A j \in 1..(i - 1) : entered.lines[j] = <<>>
                /\ drive_names[volumes[k].VolumeId] = entered.lines[i]

\* C4: the label of a volume that is prompted for is the whitespace-trimmed
\* form of the first typed line whose trimmed form is non-empty; every line
\* before it is re-prompted; both widget titles carry that label.
C4_LabelIsFirstTrimmedNonEmpty ==
    /\ \A k \in SeenByDriveNames :
        AtDrivePrompt(volumes[k]) =>
            IF Labelled(volumes[k])
            THEN \E i \in 1..Len(entered.lines) :
                    /\ i = Len(entered.lines)
                    /\ strip(entered.lines[i]) # <<>>
                    /\ \A j \in 1..(i - 1) : strip(entered.lines[j]) = <<>>
                    /\ drive_names[volumes[k].VolumeId] = strip(entered.lines[i])
            ELSE \A j \in 1..Len(entered.lines) : strip(entered.lines[j]) = <<>>
    /\ pc \in {"put_dashboard", "published"} =>
        \A k \in 1..Len(volumes) : TitlesCarry(k)

\* a blank line was re-prompted and " A " gave the label "A"
C4_Witness ==
    /\ pc = "drive_names"
    /\ entered.lines = << <<" ">>, <<" ", "A", " ">> >>
    /\ \E k \in 1..Len(volumes) :
        /\ AtDrivePrompt(volumes[k])
        /\ volumes[k].NameTag = None
        /\ drive_names[volumes[k].VolumeId] = <<"A">>

ListedNothing ==
    \E i \in DOMAIN calls : IsListCall(calls[i]) /\ calls[i].ok /\ calls[i].n = 0

\* C5: when the list call succeeds and returns no volumes, no drive-label
\* prompt is issued, put_dashboard is not called, and the run leaves
\* create_dashboard right after the emptiness test.
C5_ZeroVolumesSkipsDashboard ==
    ListedNothing =>
        /\ prompted = {}
        /\ NoPutCall
        /\ pc \in {"detail", "check_volumes", "done"}

\* the run ended with the "no volumes" notice after an empty list
C5_Witness ==
    /\ ListedNothing
    /\ pc = "done"
    /\ ~interrupted
    /\ out = <<"no_volumes">>

ReadFailed ==
    \E i \in DOMAIN calls : calls[i].op = "describe_volumes" /\ ~calls[i].ok

\* C6: when the list call or a detail call fails, get_volume_info returns the
\* empty list, also after other volumes were read, and create_dashboard ends
\* without a prompt and without calling put_dashboard.
C6_ReadFailureGivesNoVolumes ==
    ReadFailed =>
        /\ pc \in {"check_volumes", "done"}
        /\ volumes = <<>>
        /\ prompted = {}
        /\ NoPutCall

\* the second detail call failed after the first succeeded
C6_Witness ==
    /\ pc = "check_volumes"
    /\ volumes = <<>>
    /\ Len(calls) >= 2
    /\ IsDetailCall(calls[Len(calls)]) /\ ~calls[Len(calls)].ok
    /\ IsDetailCall(calls[Len(calls) - 1]) /\ calls[Len(calls) - 1].ok

\* the step in which put_dashboard is called and returns
Publishes == pc = "put_dashboard" /\ pc' = "published"

\* C7: a publish stores exactly the widget set built in this run under the
\* chosen name, replacing any document stored there (none of its widgets stay,
\* none is doubled), and leaves every other dashboard as it was; publishing a
\* widget set the name already holds leaves the whole store as it was.
C7_PublishOverwritesIdempotently ==
    [][Publishes =>
        /\ DOMAIN store' = DOMAIN store \cup {dashboard_name}
        /\ store'[dashboard_name] = [json |-> [widgets |-> widgets]]
        /\ \A n \in DOMAIN store \ {dashboard_name} : store'[n] = store[n]
        /\ (/\ dashboard_name \in DOMAIN store
            /\ store[dashboard_name].json.widgets = widgets) => store' = store
       ]_vars

\* the widget set an earlier run stored under the name was published again,
\* next to a dashboard of another name
C7_Witness ==
    /\ pc = "published"
    /\ widgets = EarlierWidgets
    /\ <<"o">> \in DOMAIN store
    /\ store[dashboard_name] = store[<<"o">>]
    /\ Len(store[dashboard_name].json.widgets) = 2

InstanceLines == Typed(InstancePrompt)

HasPrefixAndLength(s) ==
    /\ Len(s) > 2
    /\ s[1] = "i"
    /\ s[2] = "-"

\* C8 as stated: a line is re-prompted unless it starts with 'i-' and is longer
\* than 2, and the instance ID returned is the first line that does.
C8_AsStated ==
    /\ pc = "instance_prompt" =>
        \A i \in 1..Len(InstanceLines) : ~HasPrefixAndLength(InstanceLines[i])
    /\ (pc = "name_prompt" /\ entered.prompt = InstancePrompt) =>
        \E i \in 1..Len(InstanceLines) :
            /\ i = Len(InstanceLines)
            /\ HasPrefixAndLength(InstanceLines[i])
            /\ \A j \in 1..(i - 1) : ~HasPrefixAndLength(InstanceLines[j])
            /\ instance_id = InstanceLines[i]

\* C8: a line is re-prompted, and the dashboard-name prompt not reached, unless
\* its whitespace-trimmed form starts with 'i-' and is longer than 2; the
\* instance ID returned is the trimmed form of the first line that passes.
C8_InstanceIdIsFirstTrimmedValid ==
    /\ pc = "instance_prompt" =>
        \A i \in 1..Len(InstanceLines) : ~HasPrefixAndLength(strip(InstanceLines[i]))
    /\ (pc = "name_prompt" /\ entered.prompt = InstancePrompt) =>
        \E i \in 1..Len(InstanceLines) :
            /\ i = Len(InstanceLines)
            /\ HasPrefixAndLength(strip(InstanceLines[i]))
            /\ \A j \in 1..(i - 1) : ~HasPrefixAndLength(strip(InstanceLines[j]))
            /\ instance_id = strip(InstanceLines[i])
    /\ pc \notin {"get_aws_regions", "region_prompt", "instance_prompt"} =>
        (instance_id # None => HasPrefixAndLength(instance_id))

\* "bad-id" was re-prompted and " i-0" was returned as "i-0"
C8_Witness ==
    /\ pc = "name_prompt"
    /\ InstanceLines = << <<"b", "a", "d", "-", "i", "d">>, <<" ", "i", "-", "0">> >>
    /\ instance_id = <<"i", "-", "0">>

\* the volume appended last and the detail response it was built from
LastVolume == volumes[Len(volumes)]

HasKey(resp, key) == Len(resp) > 0 /\ key \in DOMAIN resp[1]

NameTagReported(resp, value) ==
    /\ HasKey(resp, "Tags")
    /\ \E i \in 1..Len(resp[1].Tags) :
        /\ resp[1].Tags[i].Key = "Name"
        /\ resp[1].Tags[i].Value = value
        /\ \A j \in 1..(i - 1) : resp[1].Tags[j].Key # "Name"

NoNameTagReported(resp) ==
    HasKey(resp, "Tags") => \A i \in 1..Len(resp[1].Tags) : resp[1].Tags[i].Key # "Name"

\* C9: a volume returned by get_volume_info carries the Iops and Throughput
\* the provider reports for it, 3000 where Iops is absent and 125 where
\* Throughput is absent, each on its own, and the value of its Name tag, or
\* no name where there is no such tag.
C9_VolumeCarriesProvisioning ==
    (pc = "detail" /\ Len(volumes) > 0) =>
        /\ idx = Len(volumes) + 1
        /\ LastVolume.VolumeId = response[idx - 1].VolumeId
        /\ LastVolume.Iops = IF HasKey(detail, "Iops") THEN detail[1].Iops ELSE 3000
        /\ LastVolume.Throughput
             = IF HasKey(detail, "Throughput") THEN detail[1].Throughput ELSE 125
        /\ \/ NameTagReported(detail, LastVolume.NameTag)
           \/ NoNameTagReported(detail) /\ LastVolume.NameTag = None

\* Iops reported, Throughput absent, a Name tag behind another tag
C9_Witness ==
    /\ pc = "detail"
    /\ Len(volumes) > 0
    /\ HasKey(detail, "Iops") /\ ~HasKey(detail, "Throughput")
    /\ LastVolume.Iops = 100
    /\ LastVolume.Throughput = 125
    /\ LastVolume.NameTag = <<" ", "D">>

\* C10: a keyboard interruption, wherever it arrives, ends the run at main's
\* handler: the cancellation notice is the one thing printed, no except clause
\* of get_volume_info, create_dashboard or get_aws_regions takes it, and no
\* remote call follows.
C10_InterruptCancelsAtTopLevel ==
    [][interrupted' =>
        /\ pc' = "done"
        /\ calls' = calls
        /\ store' = store
        /\ out' = IF interrupted THEN out ELSE Append(out, "cancelled")
       ]_vars

\* the interruption arrived at a drive-label prompt, before any publish
C10_Witness ==
    /\ interrupted
    /\ pc = "done"
    /\ prompted # {}
    /\ NoPutCall
    /\ out = <<"cancelled">>

\* the remote calls get_volume_info has issued: all after the region lookup
VolumeInfoCalls == SubSeq(calls, 2, Len(calls))

\* get_volume_info has returned a list of at least one volume
VolumeInfoSucceeded == pc = "check_volumes" /\ Len(volumes) >= 1

\* C11 as stated: a successful get_volume_info on N >= 1 volumes has issued 2N
\* remote read calls.
C11_AsStated ==
    VolumeInfoSucceeded => Len(VolumeInfoCalls) = 2 * Len(volumes)

\* C11: a successful get_volume_info on N >= 1 volumes has issued N + 1 remote
\* read calls: one list call for the instance, then one detail call per
\* volume, in the order of the list.
C11_OneListCallThenOneDetailPerVolume ==
    VolumeInfoSucceeded =>
        /\ Len(VolumeInfoCalls) = Len(volumes) + 1
        /\ IsListCall(VolumeInfoCalls[1])
        /\ VolumeInfoCalls[1].arg.Filters = instance_id
        /\ VolumeInfoCalls[1].ok
        /\ VolumeInfoCalls[1].n = Len(volumes)
        /\ \A k \in 1..Len(volumes) :
            /\ IsDetailCall(VolumeInfoCalls[k + 1])
            /\ VolumeInfoCalls[k + 1].ok
            /\ VolumeInfoCalls[k + 1].arg.VolumeIds = << volumes[k].VolumeId >>

\* two volumes were returned after three calls
C11_Witness ==
    /\ VolumeInfoSucceeded
    /\ Len(volumes) = 2
    /\ Len(VolumeInfoCalls) = 3

\* the answer to the confirmation prompt as main compares it, in a step that
\* answers the prompt
Answer == lower(strip(entered'.lines[Len(entered'.lines)]))

ClientsBuilt == cw_region # None

\* the step issues a volume read call or a put_dashboard call
CallsProvider ==
    /\ Len(calls') > Len(calls)
    /\ calls'[Len(calls')].op \in {"describe_volumes", "put_dashboard"}

\* C12: an answer to the confirmation prompt that is not 'y' once trimmed and
\* lower-cased ends the run with the cancellation notice, no client built, no
\* volume read and no put_dashboard; the clients are built only right after
\* the answer 'y', and a volume read or put_dashboard call only with them.
C12_OnlyYProceeds ==
    [][/\ (pc = "confirm_prompt" /\ ~interrupted') =>
            IF Answer = <<"y">>
            THEN pc' = "init_clients" /\ out' = out
            ELSE /\ pc' = "done"
                 /\ out' = Append(out, "cancelled")
                 /\ ~ClientsBuilt'
                 /\ self_region' = None
                 /\ calls' = calls
                 /\ store' = store
       /\ (pc' = "init_clients" /\ pc # "init_clients") =>
            pc = "confirm_prompt" /\ Answer = <<"y">>
       /\ (~ClientsBuilt /\ ClientsBuilt') => pc = "init_clients"
       /\ CallsProvider => ClientsBuilt
      ]_vars

\* "yes" was answered: the run ended with the notice and nothing else happened
C12_Witness ==
    /\ pc = "done"
    /\ entered = [prompt |-> ConfirmPrompt, lines |-> << <<"y", "e", "s">> >>]
    /\ out = <<"cancelled">>
    /\ ~ClientsBuilt
    /\ Len(calls) = 1

\* the widgets of the k-th volume built for the region the operator selected
WidgetsForSelectedRegion(k) ==
    << metric_widget(generate_iops_widget(
           volumes[k].VolumeId, drive_names[volumes[k].VolumeId], selected_region,
           volumes[k].Iops)),
       metric_widget(generate_throughput_widget(
           volumes[k].VolumeId, drive_names[volumes[k].VolumeId], selected_region,
           volumes[k].Throughput)) >>

NeedsPrompt(volume) == volume.NameTag = None \/ volume.NameTag = <<>>

\* C13: whichever script runs, the remote calls, the drive-label prompts and
\* the put_dashboard request of a run that publishes are one and the same
\* function of the selected region, instance ID, dashboard name, provider
\* responses and operator inputs: region lookup, list call, one detail call
\* per volume, a prompt for each volume without a usable tag, and a request
\* naming the dashboard with the widgets built for the selected region.
C13_ScriptsAgree ==
    pc = "published" =>
        /\ Len(calls) = Len(volumes) + 3
        /\ calls[1].op = "describe_regions"
        /\ IsListCall(calls[2]) /\ calls[2].arg.Filters = instance_id
        /\ \A k \in 1..Len(volumes) :
            /\ IsDetailCall(calls[k + 2])
            /\ calls[k + 2].arg.VolumeIds = << volumes[k].VolumeId >>
        /\ prompted = { volumes[k].VolumeId : k \in { j \in 1..Len(volumes) :
                                                        NeedsPrompt(volumes[j]) } }
        /\ IsPutCall(calls[Len(calls)])
        /\ calls[Len(calls)].arg.DashboardName = dashboard_name
        /\ Len(PublishedWidgets) = 2 * Len(volumes)
        /\ \A k \in 1..Len(volumes) :
            SubSeq(PublishedWidgets, 2 * k - 1, 2 * k) = WidgetsForSelectedRegion(k)

\* the script that reads the client's region published two volumes, one of
\* them prompted for, in the region the provider listed first
C13_Witness ==
    /\ pc = "published"
    /\ variant = "plain"
    /\ self_region = None
    /\ selected_region = <<"ap-south-1">>
    /\ Len(volumes) = 2
    /\ Cardinality(prompted) = 1

====
